---------------------------- MODULE Spec2Model ----------------------------
(***************************************************************************)
(* The incremental turn processor of baby-games: processStream and the UI  *)
(* handlers of src/App.tsx, and the TTS scheduler (stopAudio, playTTS) of  *)
(* the gemini service, src/unnamed/part_003.                               *)
(*                                                                         *)
(* JavaScript runs every handler to its next await, so each action below   *)
(* is one such run-to-completion step.  Text is a sequence of one-character*)
(* strings.  Times are in ticks of the audio device clock.                 *)
(***************************************************************************)
EXTENDS Integers, Sequences, FiniteSets, TLC

(***************************************************************************)
(* Bounds of the model.                                                    *)
(***************************************************************************)
MaxTurns == 2
MaxTasks == 3
MaxChunks == 1
MaxTime == 2
MaxDur == 1
MaxStops == 1
MaxIncrements == 2
MaxTextIncrements == 3
MaxTextTasks == 5
MaxTurnTasks == 2
MaxLaneChunks == 2

(***************************************************************************)
(* Text: the markers, the delimiters and the string functions the turn     *)
(* processor uses.                                                         *)
(***************************************************************************)
CORRECT == <<"[", "C", "O", "R", "R", "E", "C", "T", "]">>
IMAGE_OPEN == <<"[", "I", "M", "A", "G", "E", ":">>
\* App.tsx 120: /([。！？!?.])/g.  The three full-width marks are written
\* U3002, UFF01, UFF1F: one character each.
delimiters == {"U3002", "UFF01", "UFF1F", "!", "?", "."}
Whitespace == {" ", "\n"}

Min(S) == CHOOSE x \in S : \A y \in S : x <= y
Max(S) == CHOOSE x \in S : \A y \in S : x >= y

\* substring(0, lastIndex) in place of substring(0, lastIndex + 1)
PrefixExclusive(s, n) == SubSeq(s, 1, n - 1)

\* s.substring(0, n) and s.substring(n) for 0 <= n (JavaScript indices)
Prefix(s, n) == SubSeq(s, 1, n)
Suffix(s, n) == SubSeq(s, n + 1, Len(s))

\* s.indexOf(pat) as a 1-based position, 0 when pat does not occur
IndexOf(s, pat) ==
  LET I == {i \in 1..(Len(s) - Len(pat) + 1) : SubSeq(s, i, i + Len(pat) - 1) = pat}
  IN IF I = {} THEN 0 ELSE Min(I)

includes(s, pat) == IndexOf(s, pat) # 0

\* s.replace(pat, "") with a string pattern: the FIRST occurrence only
replaceFirst(s, pat) ==
  LET i == IndexOf(s, pat)
  IN IF i = 0 THEN s ELSE Prefix(s, i - 1) \o Suffix(s, i + Len(pat) - 1)

\* s.trimStart(), s.trim()
trimStart(s) ==
  LET I == {i \in 1..Len(s) : s[i] \notin Whitespace}
  IN IF I = {} THEN <<>> ELSE Suffix(s, Min(I) - 1)

trimEnd(s) ==
  LET I == {i \in 1..Len(s) : s[i] \notin Whitespace}
  IN IF I = {} THEN <<>> ELSE Prefix(s, Max(I))

trim(s) == trimEnd(trimStart(s))

\* the match with a greedy group, /\[IMAGE:\s*(.*)\]/: it runs to the last "]"
imageMatchAtGreedy(s, i) ==
  LET open == i + Len(IMAGE_OPEN)
      N == {k \in open..Len(s) : s[k] \notin Whitespace}
      k == IF N = {} THEN Len(s) + 1 ELSE Min(N)
      J == {j \in k..Len(s) : s[j] = "]"}
      j == IF J = {} THEN 0 ELSE Max(J)
      ok == /\ open - 1 <= Len(s)
            /\ SubSeq(s, i, open - 1) = IMAGE_OPEN
            /\ j # 0
            /\ \A x \in k..(j - 1) : s[x] # "\n"
  IN [found |-> ok, from |-> i, to |-> j,
      group |-> IF ok THEN SubSeq(s, k, j - 1) ELSE <<>>]

\* The match of /\[IMAGE:\s*(.*?)\]/ that starts at position i: after the
\* opener the white space is skipped, the group starts at the first other
\* character at k, the lazy group runs to the first "]" at j, without a line break.
imageMatchAt(s, i) ==
  LET open == i + Len(IMAGE_OPEN)
      N == {k \in open..Len(s) : s[k] \notin Whitespace}
      k == IF N = {} THEN Len(s) + 1 ELSE Min(N)
      J == {j \in k..Len(s) : s[j] = "]"}
      j == IF J = {} THEN 0 ELSE Min(J)
      ok == /\ open - 1 <= Len(s)
            /\ SubSeq(s, i, open - 1) = IMAGE_OPEN
            /\ j # 0
            /\ \A x \in k..(j - 1) : s[x] # "\n"
  IN [found |-> ok, from |-> i, to |-> j,
      group |-> IF ok THEN SubSeq(s, k, j - 1) ELSE <<>>]

\* s.match(imageRegex): the leftmost match
imageMatch(s) ==
  LET I == {i \in 1..Len(s) : imageMatchAt(s, i).found}
  IN IF I = {} THEN [found |-> FALSE, from |-> 0, to |-> 0, group |-> <<>>]
     ELSE imageMatchAt(s, Min(I))

\* s.replace(imageRegex, ""): the regex has no g flag, the first match only
replaceImage(s) ==
  LET m == imageMatch(s)
  IN IF m.found THEN Prefix(s, m.from - 1) \o Suffix(s, m.to) ELSE s

\* App.tsx 80-109: the display text of an accumulated text
displayTextOf(fullText) ==
  LET d1 == IF imageMatch(fullText).found THEN replaceImage(fullText) ELSE fullText
  IN IF includes(d1, CORRECT) THEN trimStart(replaceFirst(d1, CORRECT)) ELSE d1

\* App.tsx 106: whether this increment's scan observes the correctness marker
correctSeen(fullText) ==
  LET d1 == IF imageMatch(fullText).found THEN replaceImage(fullText) ELSE fullText
  IN includes(d1, CORRECT)

\* the index of the first delimiter of the buffer instead of the last
lastIndexFirst(buffer) ==
  LET I == {i \in 1..Len(buffer) : buffer[i] \in delimiters}
  IN IF I = {} THEN 0 ELSE Min(I)

\* App.tsx 120-127: index of the last delimiter of the buffer, 0 when none
lastIndex(buffer) ==
  LET I == {i \in 1..Len(buffer) : buffer[i] \in delimiters}
  IN IF I = {} THEN 0 ELSE Max(I)

\* The match of /\[IMAGE:.*?\]/ that starts at position i: no white space is
\* skipped, so a line break right after the opener defeats the match.
ttsImageMatchAt(s, i) ==
  LET open == i + Len(IMAGE_OPEN)
      J == {j \in open..Len(s) : s[j] = "]"}
      j == IF J = {} THEN 0 ELSE Min(J)
      ok == /\ open - 1 <= Len(s)
            /\ SubSeq(s, i, open - 1) = IMAGE_OPEN
            /\ j # 0
            /\ \A x \in open..(j - 1) : s[x] # "\n"
  IN [found |-> ok, from |-> i, to |-> j]

\* s.replace(/\[IMAGE:.*?\]/, ""): the leftmost match only
ttsReplaceImage(s) ==
  LET I == {i \in 1..Len(s) : ttsImageMatchAt(s, i).found}
  IN IF I = {} THEN s
     ELSE Prefix(s, Min(I) - 1) \o Suffix(s, ttsImageMatchAt(s, Min(I)).to)

\* App.tsx 134-137 and 155-158: the text handed to synthesis
ttsTextOf(sentence) == trim(ttsReplaceImage(replaceFirst(sentence, CORRECT)))

\* s.endsWith(pat)
endsWith(s, pat) ==
  Len(pat) <= Len(s) /\ SubSeq(s, Len(s) - Len(pat) + 1, Len(s)) = pat

\* part_003 76 and 91: the text a stream generator yields from its catch
\* block, an apology that ends with a full-width exclamation mark
Fallback == <<"x", "UFF01">>

\* part_003 89-92: the generator has caught a failure and yielded the
\* fallback text; it returns when asked for more
streamFailed(fullText) == endsWith(fullText, Fallback)

(***************************************************************************)
(* State.                                                                  *)
(***************************************************************************)
VARIABLES
  gameState,          \* App.tsx 21: "IDLE" or "PLAYING"
  messages,           \* App.tsx 22: sequence of [id, role, text, imageUrl]
  isLoading,          \* App.tsx 23
  showCelebration,    \* App.tsx 24
  isSpeaking,         \* App.tsx 25
  streamSequenceId,   \* App.tsx 33: the turn epoch
  turns,              \* the processStream invocations, in call order
  images,             \* the generateImage calls, in call order
  audioContext,       \* part_003 22: "null", "suspended" or "running"
  currentTime,        \* audioContext.currentTime, in ticks
  activeSources,      \* part_003 24: the live units, as positions of sinkLog
  nextStartTime,      \* part_003 26: the playback cursor
  latestTTSId,        \* part_003 28: the scheduler epoch
  audioQueue,         \* part_003 30: the task whose promise ends the chain, 0 = resolved
  tasks,              \* the playTTS calls (processTask), in call order
  sinkLog,            \* every source.start(startTime) so far, in call order
  micStops            \* number of toggleListening stops so far

appVars == <<gameState, messages, isLoading, showCelebration, isSpeaking,
             streamSequenceId, turns, images>>
audioVars == <<audioContext, currentTime, activeSources, nextStartTime,
               latestTTSId, audioQueue, tasks, sinkLog>>
vars == <<appVars, audioVars, micStops>>

Durations == 1..MaxDur
FixedSlack == 1       \* App.tsx 180: the 200 ms added to the drain delay

Init ==
  /\ gameState = "IDLE"
  /\ messages = <<>>
  /\ isLoading = FALSE
  /\ showCelebration = FALSE
  /\ isSpeaking = FALSE
  /\ streamSequenceId = 0
  /\ turns = <<>>
  /\ images = <<>>
  /\ audioContext = "null"
  /\ currentTime = 0
  /\ activeSources = {}
  /\ nextStartTime = 0
  /\ latestTTSId = 0
  /\ audioQueue = 0
  /\ tasks = <<>>
  /\ sinkLog = <<>>
  /\ micStops = 0

(***************************************************************************)
(* The scheduler's module state as one record, so that stopAudio and       *)
(* playTTS can be composed inside one handler step.                        *)
(***************************************************************************)
Audio ==
  [latestTTSId |-> latestTTSId, audioQueue |-> audioQueue,
   activeSources |-> activeSources, nextStartTime |-> nextStartTime,
   tasks |-> tasks]

SetAudio(a) ==
  /\ latestTTSId' = a.latestTTSId
  /\ audioQueue' = a.audioQueue
  /\ activeSources' = a.activeSources
  /\ nextStartTime' = a.nextStartTime
  /\ tasks' = a.tasks

\* stopAudio without activeSources.clear()
stopAudioNoClear(a) ==
  [a EXCEPT !.latestTTSId = @ + 1,
            !.audioQueue = 0,
            !.nextStartTime = IF audioContext # "null" THEN 0 ELSE @]

\* stopAudio without latestTTSId++
stopAudioNoBump(a) ==
  [a EXCEPT !.audioQueue = 0,
            !.activeSources = {},
            !.nextStartTime = IF audioContext # "null" THEN 0 ELSE @]

\* stopAudio without the reset of audioQueue
stopAudioKeepLane(a) ==
  [a EXCEPT !.latestTTSId = @ + 1,
            !.activeSources = {},
            !.nextStartTime = IF audioContext # "null" THEN 0 ELSE @]

\* part_003 128-149
stopAudio(a) ==
  [a EXCEPT !.latestTTSId = @ + 1,
            !.audioQueue = 0,
            !.activeSources = {},
            !.nextStartTime = IF audioContext # "null" THEN 0 ELSE @]

\* playTTS with the task chained on a resolved promise instead of audioQueue
playTTSUnchained(a, text, turn, shouldInterrupt) ==
  LET a1 == IF shouldInterrupt THEN stopAudio(a) ELSE a
      task == [turn |-> turn, text |-> text, shouldInterrupt |-> shouldInterrupt,
               myId |-> a1.latestTTSId, prev |-> 0,
               pc |-> "queued", fetch |-> "inflight", chunks |-> 0,
               isFirstChunk |-> TRUE, duration |-> 0, onStartCalls |-> 0]
  IN [a1 EXCEPT !.tasks = Append(@, task), !.audioQueue = Len(a1.tasks) + 1]

\* playTTS called without its third argument: shouldInterrupt defaults to true
playTTSDefaultInterrupt(a, text, turn, shouldInterrupt) ==
  LET a1 == stopAudio(a)
      task == [turn |-> turn, text |-> text, shouldInterrupt |-> TRUE,
               myId |-> a1.latestTTSId, prev |-> a1.audioQueue,
               pc |-> "queued", fetch |-> "inflight", chunks |-> 0,
               isFirstChunk |-> TRUE, duration |-> 0, onStartCalls |-> 0]
  IN [a1 EXCEPT !.tasks = Append(@, task), !.audioQueue = Len(a1.tasks) + 1]

\* a playTTS that leaves the fetch to the scheduling lane: not started here
playTTSLazyFetch(a, text, turn, shouldInterrupt) ==
  LET a1 == IF shouldInterrupt THEN stopAudio(a) ELSE a
      task == [turn |-> turn, text |-> text, shouldInterrupt |-> shouldInterrupt,
               myId |-> a1.latestTTSId, prev |-> a1.audioQueue,
               pc |-> "queued", fetch |-> "idle", chunks |-> 0,
               isFirstChunk |-> TRUE, duration |-> 0, onStartCalls |-> 0]
  IN [a1 EXCEPT !.tasks = Append(@, task), !.audioQueue = Len(a1.tasks) + 1]

\* part_003 195-227 and 286-289: the synchronous part of playTTS.  The fetch
\* is started here; the task is chained on the audioQueue of this moment.
playTTS(a, text, turn, shouldInterrupt) ==
  LET a1 == IF shouldInterrupt THEN stopAudio(a) ELSE a
      task == [turn |-> turn, text |-> text, shouldInterrupt |-> shouldInterrupt,
               myId |-> a1.latestTTSId, prev |-> a1.audioQueue,
               pc |-> "queued", fetch |-> "inflight", chunks |-> 0,
               isFirstChunk |-> TRUE, duration |-> 0, onStartCalls |-> 0]
  IN [a1 EXCEPT !.tasks = Append(@, task), !.audioQueue = Len(a1.tasks) + 1]

\* A settled processTask: its promise is resolved and its locals are dead
\* (only the count of its onStart calls is kept, as history).
settled(task) ==
  [task EXCEPT !.pc = "done", !.fetch = "dropped", !.chunks = 0,
               !.isFirstChunk = FALSE, !.duration = 0]

\* a processTask without its try/catch: the failure rejects its promise
uncaught(task) == [task EXCEPT !.pc = "rejected"]

\* part_003 281-284: a failure of the fetch, of the response stream or of the
\* decode lands in the catch block, and the task's promise resolves
caught(task) == settled(task)

TaskIds == 1..Len(tasks)
TurnIds == 1..Len(turns)

\* a promise that is taken as resolved whatever its task has done
ResolvedAlways(t) == TRUE

\* the promise of task t has resolved
Resolved(t) == IF t = 0 THEN TRUE ELSE tasks[t].pc = "done"

\* A promise reaction is ready to run: the then-callback of a task whose
\* predecessor has resolved (227), the continuation of await responsePromise
\* (247) once the fetch has settled, the then-callback of Promise.all
\* (App.tsx 172).  JavaScript runs the ready reactions (microtasks) before it
\* takes the next event: a user action, a network event, a timer, a tick.
microtaskReady ==
  \/ \E t \in TaskIds :
        \/ tasks[t].pc = "queued" /\ Resolved(tasks[t].prev)
        \/ tasks[t].pc = "fetch" /\ tasks[t].fetch # "inflight"
  \/ \E k \in TurnIds :
        turns[k].pc = "waitAll" /\ \A t \in turns[k].ttsPromises : Resolved(t)

eventLoopIdle == ~microtaskReady

\* the cursor reset taken for every task, as if it might always interrupt
resetCursorAlways(shouldInterrupt, cursor) == currentTime

\* part_003 243-245
resetCursor(shouldInterrupt, cursor) ==
  IF shouldInterrupt \/ cursor < currentTime THEN currentTime ELSE cursor

(***************************************************************************)
(* The scheduling task of one playTTS call, part_003 227-284, one action   *)
(* per stretch between two awaits.                                         *)
(***************************************************************************)
\* 227-238: the chain reaches the task.  A context created here is suspended
\* or running, as the browser's autoplay policy decides.
TaskStart(t) ==
  /\ tasks[t].pc = "queued"
  /\ Resolved(tasks[t].prev)
  /\ IF tasks[t].myId # latestTTSId
       THEN /\ tasks' = [tasks EXCEPT ![t] = settled(@)]
            /\ UNCHANGED <<audioContext, nextStartTime>>
       ELSE \E created \in {"suspended", "running"} :
              LET ctx == IF audioContext = "null" THEN created ELSE audioContext
              IN /\ audioContext' = ctx
                 /\ IF ctx = "suspended"
                      THEN /\ tasks' = [tasks EXCEPT ![t].pc = "resume"]
                           /\ UNCHANGED nextStartTime
                      ELSE /\ tasks' = [tasks EXCEPT ![t].pc = "fetch"]
                           /\ nextStartTime' =
                                resetCursor(tasks[t].shouldInterrupt, nextStartTime)
  /\ UNCHANGED <<appVars, currentTime, activeSources, latestTTSId, audioQueue,
                 sinkLog, micStops>>

\* 237-247: audioContext.resume() resolves.  The context resolves its pending
\* resume promises in call order and then starts running, so every waiting
\* task runs lines 243-247 before any other code sees a running context.
ContextResumed ==
  LET W == {t \in TaskIds : tasks[t].pc = "resume"}
  IN /\ eventLoopIdle
     /\ audioContext = "suspended"
     /\ W # {}
     /\ audioContext' = "running"
     /\ tasks' = [t \in TaskIds |->
                    IF t \in W THEN [tasks[t] EXCEPT !.pc = "fetch"] ELSE tasks[t]]
     /\ nextStartTime' =
          IF \E t \in W : resetCursor(tasks[t].shouldInterrupt, nextStartTime)
                            # nextStartTime
            THEN currentTime ELSE nextStartTime
     /\ UNCHANGED <<appVars, currentTime, activeSources, latestTTSId, audioQueue,
                    sinkLog, micStops>>

\* 211-222: the network answers the generateContentStream call of task t
FetchComplete(t, outcome) ==
  /\ eventLoopIdle
  /\ tasks[t].fetch = "inflight"
  /\ tasks[t].pc # "done"
  /\ tasks' = [tasks EXCEPT ![t].fetch = outcome]
  /\ UNCHANGED <<appVars, audioContext, currentTime, activeSources,
                 nextStartTime, latestTTSId, audioQueue, sinkLog, micStops>>

\* 247-248: await responsePromise returns, or throws into the catch of 281
TaskFetched(t) ==
  /\ tasks[t].pc = "fetch"
  /\ tasks[t].fetch # "inflight"
  /\ tasks' = [tasks EXCEPT ![t] = IF @.fetch = "ok" THEN [@ EXCEPT !.pc = "chunk"]
                                    ELSE caught(@)]
  /\ UNCHANGED <<appVars, audioContext, currentTime, activeSources,
                 nextStartTime, latestTTSId, audioQueue, sinkLog, micStops>>

\* 250-256: the response stream delivers its next chunk: kind "audio" carries
\* inline data of duration d, "empty" carries none
ChunkArrivesUpTo(t, kind, d, limit) ==
  /\ eventLoopIdle
  /\ tasks[t].pc = "chunk"
  /\ tasks[t].chunks < limit
  /\ tasks' =
       IF tasks[t].myId # latestTTSId
         THEN [tasks EXCEPT ![t] = settled(@)]
       ELSE IF kind = "audio"
         THEN [tasks EXCEPT ![t].pc = "decode", ![t].duration = d,
                            ![t].chunks = @ + 1]
       ELSE [tasks EXCEPT ![t].chunks = @ + 1]
  /\ UNCHANGED <<appVars, audioContext, currentTime, activeSources,
                 nextStartTime, latestTTSId, audioQueue, sinkLog, micStops>>

ChunkArrives(t, kind, d) == ChunkArrivesUpTo(t, kind, d, MaxChunks)

\* 250, 279-283: the response stream ends, or fails into the catch of 281
StreamDone(t) ==
  /\ eventLoopIdle
  /\ tasks[t].pc = "chunk"
  /\ tasks' = [tasks EXCEPT ![t] = settled(@)]
  /\ UNCHANGED <<appVars, audioContext, currentTime, activeSources,
                 nextStartTime, latestTTSId, audioQueue, sinkLog, micStops>>

\* no epoch check after the decode
neverStaleAfterDecode(t) == FALSE

\* 258: the epoch check after the decode
staleAfterDecode(t) == tasks[t].myId # latestTTSId

\* the flag of the first chunk left as it is after onStart
firstChunkNeverCleared == TRUE

\* 276: isFirstChunk = false
firstChunkAfterOnStart == FALSE

\* a unit started at the cursor, wherever the clock is
scheduleAtCursor(cursor) == cursor

\* 264: the start time of a unit
scheduleAt(cursor) == Max({cursor, currentTime})

\* 256-277: decodeAudioData returns (ok) or throws into the catch of 281
DecodeDone(t, ok) ==
  /\ eventLoopIdle
  /\ tasks[t].pc = "decode"
  /\ IF ~ok \/ staleAfterDecode(t)
       THEN /\ tasks' = [tasks EXCEPT ![t] = IF ok THEN settled(@) ELSE caught(@)]
            /\ UNCHANGED <<activeSources, nextStartTime, sinkLog, isSpeaking>>
       ELSE LET startTime == scheduleAt(nextStartTime)
                source == Len(sinkLog) + 1
                first == tasks[t].isFirstChunk
            IN /\ sinkLog' = Append(sinkLog,
                       [task |-> t, startTime |-> startTime,
                        duration |-> tasks[t].duration])
               /\ nextStartTime' = startTime + tasks[t].duration
               /\ activeSources' = activeSources \cup {source}
               \* 274-277 with the onStart of App.tsx 143-145
               /\ isSpeaking' =
                    IF first /\ turns[tasks[t].turn].mySeqId = streamSequenceId
                      THEN TRUE ELSE isSpeaking
               /\ tasks' = [tasks EXCEPT
                    ![t].pc = "chunk",
                    ![t].isFirstChunk = IF first THEN firstChunkAfterOnStart ELSE @,
                    ![t].onStartCalls = IF first THEN @ + 1 ELSE @]
  /\ UNCHANGED <<gameState, messages, isLoading, showCelebration,
                 streamSequenceId, turns, images, audioContext, currentTime,
                 latestTTSId, audioQueue, micStops>>

\* an onended callback that empties the live set
deleteAllSources(live, s) == {}

\* 271: activeSources.delete(source)
deleteSource(live, s) == live \ {s}

\* 270-272: source.onended of a unit whose playback is over
SourceEnded(s) ==
  /\ eventLoopIdle
  /\ s \in activeSources
  /\ sinkLog[s].startTime + sinkLog[s].duration <= currentTime
  /\ activeSources' = deleteSource(activeSources, s)
  /\ UNCHANGED <<appVars, audioContext, currentTime, nextStartTime,
                 latestTTSId, audioQueue, tasks, sinkLog, micStops>>

\* 270-272 after 137-143: source.onended of a unit that stopAudio stopped and
\* took out of the live set
StoppedSourceEnded(s) ==
  /\ eventLoopIdle
  /\ s \in 1..Len(sinkLog)
  /\ s \notin activeSources
  /\ activeSources' = deleteSource(activeSources, s)
  /\ UNCHANGED <<appVars, audioContext, currentTime, nextStartTime,
                 latestTTSId, audioQueue, tasks, sinkLog, micStops>>

(***************************************************************************)
(* The UI handlers of App.tsx.  unlockAudioContext, awaited first by        *)
(* handleStartGame and handleSendMessage, is not part of the service        *)
(* source at hand; the handler bodies after that await are the actions.     *)
(* An API key is taken to be configured (hasApiKey() holds).                *)
(***************************************************************************)
\* App.tsx 56-71: the synchronous head of processStream
newTurn(caller, messageId, seq) ==
  [caller |-> caller, mySeqId |-> seq, messageId |-> messageId,
   fullText |-> <<>>, buffer |-> <<>>, isFirstSentence |-> TRUE,
   isCorrectFound |-> FALSE, imageTriggered |-> FALSE, ttsPromises |-> {},
   pc |-> "stream", n |-> 0, celebrationAtSend |-> showCelebration,
   delay |-> 0, result |-> "none", celebrated |-> 0]

message(id, role) == [id |-> id, role |-> role, text |-> <<>>, imageUrl |-> 0]

\* InputArea.tsx 104, 79 and App.tsx 467: the input controls are disabled
inputDisabled == isLoading /\ ~isSpeaking

\* App.tsx 195-225
handleStartGame ==
  /\ eventLoopIdle
  /\ gameState = "IDLE"
  /\ ~isLoading
  /\ Len(turns) < MaxTurns
  /\ LET k == Len(turns) + 1
     IN /\ gameState' = "PLAYING"
        /\ isLoading' = TRUE
        /\ messages' = <<message(k, "model")>>
        /\ showCelebration' = FALSE
        /\ isSpeaking' = FALSE
        /\ SetAudio(stopAudio(Audio))
        /\ streamSequenceId' = streamSequenceId + 2
        /\ turns' = Append(turns, newTurn("start", k, streamSequenceId + 2))
  /\ UNCHANGED <<images, audioContext, currentTime, sinkLog, micStops>>

\* App.tsx 245-272
handleSendMessage ==
  /\ eventLoopIdle
  /\ gameState = "PLAYING"
  /\ ~inputDisabled
  /\ Len(turns) < MaxTurns
  /\ LET k == Len(turns) + 1
     IN /\ SetAudio(stopAudio(Audio))
        /\ isSpeaking' = FALSE
        /\ messages' = messages \o <<message(0 - k, "user"), message(k, "model")>>
        /\ isLoading' = TRUE
        /\ streamSequenceId' = streamSequenceId + 2
        /\ turns' = Append(turns, newTurn("send", k, streamSequenceId + 2))
  /\ UNCHANGED <<gameState, showCelebration, images, audioContext, currentTime,
                 sinkLog, micStops>>

\* the restart button with the epoch reset to 0 instead of incremented
restartGameResetsEpoch ==
  /\ eventLoopIdle
  /\ gameState = "PLAYING"
  /\ SetAudio(stopAudio(Audio))
  /\ streamSequenceId' = 0
  /\ gameState' = "IDLE"
  /\ isSpeaking' = FALSE
  /\ UNCHANGED <<messages, isLoading, showCelebration, turns, images,
                 audioContext, currentTime, sinkLog, micStops>>

\* App.tsx 354-359: the restart button
restartGame ==
  /\ eventLoopIdle
  /\ gameState = "PLAYING"
  /\ SetAudio(stopAudio(Audio))
  /\ streamSequenceId' = streamSequenceId + 1
  /\ gameState' = "IDLE"
  /\ isSpeaking' = FALSE
  /\ UNCHANGED <<messages, isLoading, showCelebration, turns, images,
                 audioContext, currentTime, sinkLog, micStops>>

\* InputArea.tsx 57-67: the microphone is started (and InputArea.tsx 45, the
\* stopAudio of handleSend ahead of the await in handleSendMessage)
toggleListening ==
  /\ eventLoopIdle
  /\ gameState = "PLAYING"
  /\ ~inputDisabled
  /\ micStops < MaxStops
  /\ micStops' = micStops + 1
  /\ SetAudio(stopAudio(Audio))
  /\ UNCHANGED <<appVars, audioContext, currentTime, sinkLog>>

\* App.tsx 49-54: the timer that hides the celebration
hideCelebration ==
  /\ eventLoopIdle
  /\ showCelebration
  /\ showCelebration' = FALSE
  /\ UNCHANGED <<gameState, messages, isLoading, isSpeaking, streamSequenceId,
                 turns, images, audioVars, micStops>>

(***************************************************************************)
(* processStream, App.tsx 56-193.                                          *)
(***************************************************************************)
\* a turn that takes itself for current whatever the epoch is
currentAlways(k) == TRUE

\* App.tsx 75: the cancellation check of the loop
current(k) == turns[k].mySeqId = streamSequenceId

\* setMessages(prev => prev.map(m => m.id === messageId ? {...m, text} : m))
setText(msgs, messageId, text) ==
  [i \in 1..Len(msgs) |->
     IF msgs[i].id = messageId THEN [msgs[i] EXCEPT !.text = text] ELSE msgs[i]]

setImageUrl(msgs, messageId, url) ==
  [i \in 1..Len(msgs) |->
     IF msgs[i].id = messageId THEN [msgs[i] EXCEPT !.imageUrl = url] ELSE msgs[i]]

\* the launch without the imageTriggered flag
imageLaunchEveryScan(imageTriggered, fullText) == imageMatch(fullText).found

\* App.tsx 86-88: an image request is launched by this increment
imageLaunch(imageTriggered, fullText) ==
  imageMatch(fullText).found /\ ~imageTriggered

\* the loop body without setIsLoading(false)
loadingAfterChunkKept == isLoading

\* App.tsx 116
loadingAfterChunk == FALSE

\* App.tsx 74-151: one increment of the stream reaches a current turn
processChunk(k, chunk, maxInc, cap) ==
  LET T == turns[k]
      fullText == T.fullText \o chunk
      launch == imageLaunch(T.imageTriggered, fullText)
      buffer == T.buffer \o chunk
      li == lastIndex(buffer)
      sentence == Prefix(buffer, li)
      ttsText == ttsTextOf(sentence)
      speak == li # 0 /\ ttsText # <<>>
      a == IF speak THEN playTTS(Audio, ttsText, k, T.isFirstSentence) ELSE Audio
  IN /\ eventLoopIdle
     /\ T.pc = "stream"
     /\ current(k)
     /\ T.n < maxInc
     /\ ~streamFailed(T.fullText)
     /\ speak => Len(tasks) < cap
     /\ images' = IF launch
                    THEN Append(images, [turn |-> k, word |-> imageMatch(fullText).group,
                                         state |-> "pending", url |-> 0])
                    ELSE images
     /\ messages' = setText(messages, T.messageId, displayTextOf(fullText))
     /\ isLoading' = loadingAfterChunk
     /\ SetAudio(a)
     /\ turns' = [turns EXCEPT ![k] =
          [T EXCEPT !.fullText = fullText,
                    !.n = @ + 1,
                    !.imageTriggered = @ \/ imageMatch(fullText).found,
                    !.isCorrectFound = @ \/ correctSeen(fullText),
                    !.buffer = IF li # 0 THEN Suffix(buffer, li) ELSE buffer,
                    !.ttsPromises = IF speak THEN @ \cup {Len(tasks) + 1} ELSE @,
                    !.isFirstSentence = @ /\ ~speak]]
     /\ UNCHANGED <<gameState, showCelebration, isSpeaking, streamSequenceId,
                    audioContext, currentTime, sinkLog, micStops>>

\* part_003 74-77 and 89-92 with App.tsx 74-151: the text stream fails, at
\* the request or while it delivers; the generator catches the error and
\* yields the fallback text, which the turn processes as one more increment
streamFailure(k, maxInc, cap) == processChunk(k, Fallback, maxInc + 1, cap)

\* App.tsx 274-276: the caller's use of the result
celebrate(T) == T.caller = "send" /\ T.isCorrectFound /\ ~T.celebrationAtSend

\* a flush that submits the remainder even when it is empty
flushesAlways(k, remainder) == current(k)

\* App.tsx 159: the remainder is submitted when non-empty, to a current turn
flushes(k, remainder) == remainder # <<>> /\ current(k)

\* App.tsx 75, 154-168, 192 and 272-276: the stream is exhausted, or its next
\* increment finds the turn stale and breaks out of the loop: the flush, the
\* return of isCorrectFound and the caller's use of it
streamEnd(k, cap) ==
  LET T == turns[k]
      remainder == ttsTextOf(T.buffer)
      speak == flushes(k, remainder)
      a == IF speak THEN playTTS(Audio, remainder, k, T.isFirstSentence) ELSE Audio
  IN /\ eventLoopIdle
     /\ T.pc = "stream"
     /\ speak => Len(tasks) < cap
     /\ SetAudio(a)
     /\ showCelebration' = IF celebrate(T) THEN TRUE ELSE showCelebration
     /\ turns' = [turns EXCEPT ![k] =
          [T EXCEPT !.pc = "waitAll",
                    \* the locals of the loop are dead from here on
                    !.fullText = <<>>, !.buffer = <<>>, !.n = 0,
                    !.isFirstSentence = FALSE, !.imageTriggered = FALSE,
                    !.ttsPromises = IF speak THEN @ \cup {Len(tasks) + 1} ELSE @,
                    !.result = IF T.isCorrectFound THEN "true" ELSE "false",
                    !.celebrated = IF celebrate(T) THEN @ + 1 ELSE @]]
     /\ UNCHANGED <<gameState, messages, isLoading, isSpeaking, streamSequenceId,
                    images, audioContext, currentTime, sinkLog, micStops>>

\* getAudioEndTime answering with the clock instead of the cursor
getAudioEndTimeNow == IF audioContext = "null" THEN 0 ELSE currentTime

\* part_003 151-159
getAudioEndTime == IF audioContext = "null" THEN 0 ELSE nextStartTime
getCurrentTime == IF audioContext = "null" THEN 0 ELSE currentTime

\* App.tsx 172-181: every promise of ttsPromises has resolved
allScheduled(k) ==
  LET T == turns[k]
      timeRemaining == Max({0, getAudioEndTime - getCurrentTime})
  IN /\ T.pc = "waitAll"
     /\ \A t \in T.ttsPromises : Resolved(t)
     /\ turns' = [turns EXCEPT ![k] =
          IF current(k)
            THEN [T EXCEPT !.pc = "timer", !.delay = timeRemaining + FixedSlack]
            ELSE [T EXCEPT !.pc = "done"]]
     /\ UNCHANGED <<gameState, messages, isLoading, showCelebration, isSpeaking,
                    streamSequenceId, images, audioVars, micStops>>

\* the timer callback without its epoch check
timeoutSpeakingUnguarded(k) == FALSE

\* App.tsx 183-185: the speaking flag the timer callback leaves
timeoutSpeaking(k) == IF current(k) THEN FALSE ELSE isSpeaking

\* App.tsx 182-186: the drain timer fires
speakingTimeout(k) ==
  /\ eventLoopIdle
  /\ turns[k].pc = "timer"
  /\ turns[k].delay = 0
  /\ isSpeaking' = timeoutSpeaking(k)
  /\ turns' = [turns EXCEPT ![k].pc = "done"]
  /\ UNCHANGED <<gameState, messages, isLoading, showCelebration,
                 streamSequenceId, images, audioVars, micStops>>

\* the guard of the image result without its epoch check
imageAppliesAnyEpoch(i, url) == url # 0

\* App.tsx 93: the guard of the image result
imageApplies(i, url) == url # 0 /\ current(images[i].turn)

\* App.tsx 92-100: generateImage settles, with a url (i) or with null (0)
imageDone(i, url) ==
  /\ eventLoopIdle
  /\ images[i].state = "pending"
  /\ images' = [images EXCEPT ![i].state = "done", ![i].url = url]
  /\ messages' = IF imageApplies(i, url)
                   THEN setImageUrl(messages, turns[images[i].turn].messageId, url)
                   ELSE messages
  /\ UNCHANGED <<gameState, isLoading, showCelebration, isSpeaking,
                 streamSequenceId, turns, audioVars, micStops>>

\* one tick of time: the device clock of a running context advances and the
\* pending drain timers come one tick closer
timePasses ==
  /\ eventLoopIdle
  /\ IF audioContext = "running" THEN TRUE
     ELSE \E k \in TurnIds : turns[k].pc = "timer" /\ turns[k].delay > 0
  /\ currentTime' = IF audioContext = "running" THEN currentTime + 1 ELSE currentTime
  /\ turns' = [k \in TurnIds |->
                 IF turns[k].pc = "timer" /\ turns[k].delay > 0
                   THEN [turns[k] EXCEPT !.delay = @ - 1] ELSE turns[k]]
  /\ UNCHANGED <<gameState, messages, isLoading, showCelebration, isSpeaking,
                 streamSequenceId, images, audioContext, activeSources,
                 nextStartTime, latestTTSId, audioQueue, tasks, sinkLog, micStops>>

\* time within the horizon MaxTime of the device clock
Tick == (audioContext = "running" => currentTime < MaxTime) /\ timePasses

\* time that something waits for: a drain timer that has not expired, or a
\* unit of the live set that has not played to its end
awaited ==
  \/ \E k \in TurnIds : turns[k].pc = "timer" /\ turns[k].delay > 0
  \/ \E s \in activeSources :
       sinkLog[s].startTime + sinkLog[s].duration > currentTime

TickAwaited == awaited /\ timePasses

(***************************************************************************)
(* The increments a stream may deliver.                                    *)
(***************************************************************************)
Sentence == <<"a", "U3002">>
Increments == {Sentence}

\* the steps of the scheduling tasks and of the audio device
AudioSteps ==
  \/ \E t \in TaskIds : TaskStart(t)
  \/ ContextResumed
  \/ \E t \in TaskIds : \E outcome \in {"ok", "failed"} : FetchComplete(t, outcome)
  \/ \E t \in TaskIds : TaskFetched(t)
  \/ \E t \in TaskIds : \E kind \in {"audio", "empty"} : \E d \in Durations :
       ChunkArrives(t, kind, d)
  \/ \E t \in TaskIds : StreamDone(t)
  \/ \E t \in TaskIds : \E ok \in BOOLEAN : DecodeDone(t, ok)
  \/ \E s \in activeSources : SourceEnded(s)
  \/ Tick

\* the drain of a turn
DrainSteps ==
  \/ \E k \in TurnIds : allScheduled(k)
  \/ \E k \in TurnIds : speakingTimeout(k)

\* Spec: the scheduler under every user action; the streams deliver plain
\* sentences.
Next ==
  \/ handleStartGame
  \/ handleSendMessage
  \/ restartGame
  \/ toggleListening
  \/ \E k \in TurnIds : \E chunk \in Increments :
       processChunk(k, chunk, MaxIncrements, MaxTasks)
  \/ \E k \in TurnIds : streamEnd(k, MaxTasks)
  \/ DrainSteps
  \/ AudioSteps

Spec == Init /\ [][Next]_vars

\* SpecLane: one turn, the game start, with the whole pipeline.  The event
\* loop runs every ready reaction; the network settles every request and
\* ends every stream, the device answers resume() and every decode, and the
\* text stream ends.
\* A response stream of SpecLane delivers up to MaxLaneChunks chunks.
LaneAudioSteps ==
  \/ \E t \in TaskIds : TaskStart(t)
  \/ ContextResumed
  \/ \E t \in TaskIds : \E outcome \in {"ok", "failed"} : FetchComplete(t, outcome)
  \/ \E t \in TaskIds : TaskFetched(t)
  \/ \E t \in TaskIds : \E kind \in {"audio", "empty"} : \E d \in Durations :
       ChunkArrivesUpTo(t, kind, d, MaxLaneChunks)
  \/ \E t \in TaskIds : StreamDone(t)
  \/ \E t \in TaskIds : \E ok \in BOOLEAN : DecodeDone(t, ok)
  \/ \E s \in activeSources : SourceEnded(s)
  \/ Tick

NextLane ==
  \/ handleStartGame
  \/ \E k \in TurnIds : \E chunk \in Increments :
       processChunk(k, chunk, MaxIncrements, MaxTasks)
  \/ \E k \in TurnIds : streamEnd(k, MaxTasks)
  \/ DrainSteps
  \/ LaneAudioSteps

FairLane ==
  /\ WF_vars(\E t \in TaskIds : TaskStart(t))
  /\ WF_vars(ContextResumed)
  /\ WF_vars(\E t \in TaskIds : \E outcome \in {"ok", "failed"} : FetchComplete(t, outcome))
  /\ WF_vars(\E t \in TaskIds : TaskFetched(t))
  /\ WF_vars(\E t \in TaskIds : StreamDone(t))
  /\ WF_vars(\E t \in TaskIds : \E ok \in BOOLEAN : DecodeDone(t, ok))
  /\ WF_vars(\E k \in TurnIds : streamEnd(k, MaxTasks))
  /\ WF_vars(\E k \in TurnIds : allScheduled(k))

SpecLane == Init /\ [][NextLane]_vars /\ FairLane

\* SpecStop: SpecLane with a send, whose stopAudio interrupts the requests
\* of the turn before.  The continuations of a scheduling task and the local
\* decoding are fair; the network is not: a fetch may never complete.
NextStop ==
  \/ handleStartGame
  \/ handleSendMessage
  \/ \E k \in TurnIds : \E chunk \in Increments :
       processChunk(k, chunk, MaxIncrements, MaxTasks)
  \/ \E k \in TurnIds : streamEnd(k, MaxTasks)
  \/ DrainSteps
  \/ LaneAudioSteps

FairStop ==
  /\ WF_vars(\E t \in TaskIds : TaskStart(t))
  /\ WF_vars(ContextResumed)
  /\ WF_vars(\E t \in TaskIds : TaskFetched(t))
  /\ WF_vars(\E t \in TaskIds : StreamDone(t))
  /\ WF_vars(\E t \in TaskIds : \E ok \in BOOLEAN : DecodeDone(t, ok))
  /\ WF_vars(\E k \in TurnIds : allScheduled(k))

SpecStop == Init /\ [][NextStop]_vars /\ FairStop

\* SpecDrain: a game start, a send and the microphone button, with the
\* pipeline down to the drain timer.  Time has no horizon here: it passes
\* whenever a timer or a playing unit waits for it, and only then.  The
\* continuations, the network, the decoding and the passing of time are fair.
NextDrain ==
  \/ handleStartGame
  \/ handleSendMessage
  \/ toggleListening
  \/ \E k \in TurnIds : \E chunk \in Increments :
       processChunk(k, chunk, MaxIncrements, MaxTasks)
  \/ \E k \in TurnIds : streamEnd(k, MaxTasks)
  \/ DrainSteps
  \/ \E t \in TaskIds : TaskStart(t)
  \/ ContextResumed
  \/ \E t \in TaskIds : \E outcome \in {"ok", "failed"} : FetchComplete(t, outcome)
  \/ \E t \in TaskIds : TaskFetched(t)
  \/ \E t \in TaskIds : \E kind \in {"audio", "empty"} : \E d \in Durations :
       ChunkArrives(t, kind, d)
  \/ \E t \in TaskIds : StreamDone(t)
  \/ \E t \in TaskIds : \E ok \in BOOLEAN : DecodeDone(t, ok)
  \/ \E s \in activeSources : SourceEnded(s)
  \/ \E s \in 1..Len(sinkLog) : StoppedSourceEnded(s)
  \/ TickAwaited

FairDrain ==
  /\ WF_vars(\E t \in TaskIds : TaskStart(t))
  /\ WF_vars(ContextResumed)
  /\ WF_vars(\E t \in TaskIds : \E outcome \in {"ok", "failed"} : FetchComplete(t, outcome))
  /\ WF_vars(\E t \in TaskIds : TaskFetched(t))
  /\ WF_vars(\E t \in TaskIds : StreamDone(t))
  /\ WF_vars(\E t \in TaskIds : \E ok \in BOOLEAN : DecodeDone(t, ok))
  /\ WF_vars(\E k \in TurnIds : allScheduled(k))
  /\ WF_vars(\E k \in TurnIds : speakingTimeout(k))
  /\ WF_vars(\E s \in activeSources : SourceEnded(s))
  /\ WF_vars(TickAwaited)

SpecDrain == Init /\ [][NextDrain]_vars /\ FairDrain

\* SpecTurn: a game start and sends, with the whole pipeline; the streams
\* deliver sentences and an increment that carries an image marker and
\* leaves an unfinished sentence.
TaggedWord == IMAGE_OPEN \o <<"b", "]", "a">>
TurnIncrements == {Sentence, TaggedWord}

NextTurn ==
  \/ handleStartGame
  \/ handleSendMessage
  \/ \E k \in TurnIds : \E chunk \in TurnIncrements :
       processChunk(k, chunk, MaxIncrements, MaxTurnTasks)
  \/ \E k \in TurnIds : streamEnd(k, MaxTurnTasks)
  \/ \E i \in 1..Len(images) : \E url \in {0, i} : imageDone(i, url)
  \/ DrainSteps
  \/ AudioSteps

SpecTurn == Init /\ [][NextTurn]_vars

\* SpecText: the text side of the turns.  The game start delivers one plain
\* sentence; the stream of a send delivers increments that split, repeat
\* and nest the markers.  The synthesis requests stay unanswered: a task
\* starts and then waits for its response.
TextIncrements ==
  { <<" ", "a">>,
    Sentence,
    <<"a", "!", "b", "?">>,
    CORRECT,
    <<"[", "C", "O", "R">>,
    <<"R", "E", "C", "T", "]">>,
    IMAGE_OPEN \o <<" ", "b", "]">>,
    IMAGE_OPEN \o <<"c", ".">>,
    <<"d", "]">> }

textIncrementsOf(k) ==
  IF turns[k].caller = "start" THEN {Sentence} ELSE TextIncrements

textLengthOf(k) ==
  IF turns[k].caller = "start" THEN 1 ELSE MaxTextIncrements

NextText ==
  \/ handleStartGame
  \/ handleSendMessage
  \/ hideCelebration
  \/ \E k \in TurnIds : \E chunk \in textIncrementsOf(k) :
       processChunk(k, chunk, textLengthOf(k), MaxTextTasks)
  \/ \E k \in TurnIds : streamFailure(k, textLengthOf(k), MaxTextTasks)
  \/ \E k \in TurnIds : streamEnd(k, MaxTextTasks)
  \/ \E t \in TaskIds : TaskStart(t)
  \/ DrainSteps
  \/ Tick

SpecText == Init /\ [][NextText]_vars

\* SpecCelebrate: a game start, a send and the restart button; the streams
\* deliver sentences and the correctness marker.
CelebrateIncrements == {Sentence, CORRECT}

NextCelebrate ==
  \/ handleStartGame
  \/ handleSendMessage
  \/ restartGame
  \/ hideCelebration
  \/ \E k \in TurnIds : \E chunk \in CelebrateIncrements :
       processChunk(k, chunk, MaxIncrements, MaxTasks)
  \/ \E k \in TurnIds : streamEnd(k, MaxTasks)
  \/ \E t \in TaskIds : TaskStart(t)
  \/ DrainSteps
  \/ Tick

SpecCelebrate == Init /\ [][NextCelebrate]_vars

(***************************************************************************)
(* Properties of the scheduler, checked under Spec.                        *)
(***************************************************************************)
UnitIds == 1..Len(sinkLog)
unitTask(i) == tasks[sinkLog[i].task]
unitEnd(i) == sinkLog[i].startTime + sinkLog[i].duration

\* two tasks submitted by the same turn with no stopAudio between them
sameUninterruptedTurn(a, b) ==
  tasks[a].turn = tasks[b].turn /\ tasks[a].myId = tasks[b].myId

\* C1: within one uninterrupted turn every unit of an earlier request is
\* handed to the sink before any unit of a later request, and a later
\* request's task does not start before the earlier one's has settled,
\* whatever the order in which the fetches complete.
C1_RequestOrder ==
  /\ \A i, j \in UnitIds :
       (i < j /\ sameUninterruptedTurn(sinkLog[i].task, sinkLog[j].task))
         => sinkLog[i].task <= sinkLog[j].task
  /\ \A a, b \in TaskIds :
       (a < b /\ sameUninterruptedTurn(a, b) /\ tasks[b].pc # "queued")
         => tasks[a].pc = "done"

\* the later request's fetch is complete and waits in the lane while the
\* earlier request of the same turn still awaits its own fetch
C1_Witness ==
  \E a, b \in TaskIds :
    /\ a < b /\ sameUninterruptedTurn(a, b)
    /\ tasks[a].pc = "fetch" /\ tasks[a].fetch = "inflight"
    /\ tasks[b].pc = "queued" /\ tasks[b].fetch = "ok"

\* C2: units of one uninterrupted turn do not overlap: each starts no
\* earlier than the end of every unit scheduled before it.
C2_Contiguous ==
  \A i, j \in UnitIds :
    (i < j /\ sameUninterruptedTurn(sinkLog[i].task, sinkLog[j].task))
      => sinkLog[j].startTime >= unitEnd(i)

\* two units of one uninterrupted turn, the second after a silence gap
C2_Witness ==
  \E i, j \in UnitIds :
    /\ i < j /\ sameUninterruptedTurn(sinkLog[i].task, sinkLog[j].task)
    /\ sinkLog[j].startTime > unitEnd(i)

\* C3: whenever stopAudio has run (latestTTSId has changed), the live set
\* is empty right after.
C3_StopEmptiesLiveSet ==
  [][latestTTSId' # latestTTSId => activeSources' = {}]_vars

\* stopAudio has cut a unit short while a task was still pending
C3_Witness ==
  /\ activeSources = {}
  /\ \E i \in UnitIds : unitEnd(i) > currentTime
  /\ \E t \in TaskIds : tasks[t].pc # "done"

\* C4: a task whose epoch is no longer the scheduler's creates no unit and
\* calls onStart no more.
C4_StaleTaskSilent ==
  [][\A t \in TaskIds :
       tasks[t].myId # latestTTSId =>
         /\ tasks'[t].onStartCalls = tasks[t].onStartCalls
         /\ \A i \in (1..Len(sinkLog')) \ UnitIds : sinkLog'[i].task # t]_vars

\* a task went stale while it awaited a decode
C4_Witness ==
  \E t \in TaskIds : tasks[t].myId # latestTTSId /\ tasks[t].pc = "decode"

\* C5: after an interruption no request of the abandoned turn reaches the
\* sink, and the first unit of a turn starts at the device time of the
\* moment it is scheduled.
C5_InterruptThenNewTurn ==
  [][\A i \in (1..Len(sinkLog')) \ UnitIds :
       LET t == sinkLog'[i].task
       IN /\ current(tasks[t].turn)
          /\ (\A j \in UnitIds : tasks[sinkLog[j].task].turn # tasks[t].turn)
               => sinkLog'[i].startTime = currentTime]_vars

\* a turn that had scheduled a unit was cut by a send while another of its
\* requests was still being fetched, and the new turn has scheduled a unit
C5_Witness ==
  \E k \in TurnIds : \E a, b \in TaskIds : \E i, j \in UnitIds :
    /\ k > 1 /\ turns[k].caller = "send"
    /\ tasks[a].turn = k - 1 /\ sinkLog[i].task = a
    /\ tasks[b].turn = k - 1 /\ tasks[b].fetch = "inflight"
    /\ tasks[sinkLog[j].task].turn = k


(***************************************************************************)
(* Stale turns, directives and the display text.                           *)
(***************************************************************************)
stale(k) == turns[k].mySeqId # streamSequenceId

\* a step in which turn k, one of its synthesis tasks or its image request
\* moves
acts(k) ==
  \/ turns'[k] # turns[k]
  \/ \E t \in TaskIds : tasks[t].turn = k /\ tasks'[t] # tasks[t]
  \/ \E i \in 1..Len(images) : images[i].turn = k /\ images'[i] # images[i]

textOf(k) ==
  LET M == {m \in 1..Len(messages) : messages[m].id = turns[k].messageId}
  IN IF M = {} THEN <<>> ELSE messages[Min(M)].text

imageUrlOf(k) ==
  LET M == {m \in 1..Len(messages) : messages[m].id = turns[k].messageId}
  IN IF M = {} THEN 0 ELSE messages[Min(M)].imageUrl

countOf(s, pat) ==
  Cardinality({i \in 1..(Len(s) - Len(pat) + 1) :
                 SubSeq(s, i, i + Len(pat) - 1) = pat})

imagesOf(k) == {i \in 1..Len(images) : images[i].turn = k}

\* C6: once the captured epoch of a turn differs from the current epoch, no
\* step of that turn, of its synthesis tasks or of its image request
\* processes a further increment, changes a message, changes the loading
\* flag, launches an image request, submits a synthesis request (the flush
\* included) or changes the speaking flag.
C6_StaleTurnInert ==
  [][\A k \in TurnIds :
       (stale(k) /\ acts(k)) =>
         /\ messages' = messages
         /\ isLoading' = isLoading
         /\ isSpeaking' = isSpeaking
         /\ Len(images') = Len(images)
         /\ Len(tasks') = Len(tasks)
         /\ turns'[k].n <= turns[k].n
         /\ turns'[k].fullText \in {turns[k].fullText, <<>>}]_vars

\* the drain timer of an abandoned turn is due while a later turn speaks
C6_Witness ==
  \E k \in TurnIds :
    /\ stale(k)
    /\ turns[k].pc = "timer"
    /\ turns[k].delay = 0
    /\ isSpeaking
    /\ \E j \in TurnIds : current(j) /\ turns[j].pc = "stream"

\* C7: a turn whose accumulated text holds the correctness marker two or
\* more times has observed it, returns correct = true when its stream ends,
\* and starts the celebration at most once.
C7_CorrectOnce ==
  /\ [](\A k \in TurnIds :
          /\ turns[k].celebrated <= 1
          /\ (turns[k].pc = "stream" /\ countOf(turns[k].fullText, CORRECT) >= 2)
               => turns[k].isCorrectFound)
  /\ [][\A k \in TurnIds :
          (/\ turns[k].pc = "stream"
           /\ turns'[k].pc # "stream"
           /\ countOf(turns[k].fullText, CORRECT) >= 2) =>
             /\ turns'[k].result = "true"
             /\ turns'[k].celebrated =
                  IF turns[k].caller = "send" /\ ~turns[k].celebrationAtSend
                    THEN 1 ELSE 0
             /\ (turns'[k].celebrated = 1 => showCelebration')]_vars

\* the stream of a send has delivered all its increments, two of them
\* completed a correctness marker, no celebration is showing
C7_Witness ==
  \E k \in TurnIds :
    /\ turns[k].pc = "stream"
    /\ turns[k].caller = "send"
    /\ turns[k].n = MaxTextIncrements
    /\ countOf(turns[k].fullText, CORRECT) >= 2
    /\ turns[k].isCorrectFound
    /\ ~turns[k].celebrationAtSend
    /\ ~showCelebration

\* C8: a turn has at most one image request; it has one as soon as its
\* accumulated text holds a complete image marker, and the subject of the
\* request is the subject of the first complete marker of the text, however
\* many increments and markers follow.
C8_OneImagePerTurn ==
  \A k \in TurnIds :
    /\ Cardinality(imagesOf(k)) <= 1
    /\ turns[k].pc = "stream" =>
         /\ imageMatch(turns[k].fullText).found <=> imagesOf(k) # {}
         /\ \A i \in imagesOf(k) :
              images[i].word = imageMatch(turns[k].fullText).group

\* two increments were processed after the one that completed the first
\* image marker, and the text holds a second complete marker
C8_Witness ==
  \E k \in TurnIds :
    /\ turns[k].pc = "stream"
    /\ turns[k].n = MaxTextIncrements
    /\ imagesOf(k) # {}
    /\ imageMatch(replaceImage(turns[k].fullText)).found
    /\ imageMatch(turns[k].fullText).to < Len(turns[k].fullText) - Len(IMAGE_OPEN)

\* C9: when an image request completes, a message changes only if the
\* turn that launched the request is the current turn, and then only the
\* message of that turn; a result that completes after an epoch bump
\* leaves every message unchanged.
C9_ImageResultEpoch ==
  [][\A i \in 1..Len(images) :
       (images[i].state = "pending" /\ images'[i].state = "done") =>
         IF turns[images[i].turn].mySeqId = streamSequenceId
           THEN \A m \in 1..Len(messages) :
                  \/ messages'[m] = messages[m]
                  \/ /\ messages[m].id = turns[images[i].turn].messageId
                     /\ images'[i].url # 0
                     /\ messages'[m] = [messages[m] EXCEPT !.imageUrl = images'[i].url]
           ELSE messages' = messages]_vars

\* an image request has completed with a url after its turn was abandoned and
\* the message of the turn has no image; another request was applied
C9_Witness ==
  /\ \E i \in 1..Len(images) :
       /\ images[i].state = "done"
       /\ images[i].url # 0
       /\ stale(images[i].turn)
       /\ imageUrlOf(images[i].turn) = 0
  /\ \E i \in 1..Len(images) :
       /\ images[i].state = "done"
       /\ imageUrlOf(images[i].turn) = images[i].url
       /\ images[i].url # 0

\* C10: after every processed increment the display text of the message of
\* the turn holds no correctness marker and no complete image marker.
C10_DisplayTextClean ==
  \A k \in TurnIds :
    (turns[k].pc = "stream" /\ turns[k].n >= 1 /\ current(k)) =>
      /\ ~includes(textOf(k), CORRECT)
      /\ ~imageMatch(textOf(k)).found

(***************************************************************************)
(* Segmentation: what a turn hands to synthesis.                           *)
(***************************************************************************)
RECURSIVE stripAll(_)
\* the text with every complete marker removed, image markers first
stripAll(s) ==
  IF imageMatch(s).found THEN stripAll(replaceImage(s))
  ELSE IF includes(s, CORRECT) THEN stripAll(replaceFirst(s, CORRECT))
  ELSE s

withoutWhitespace(s) == SelectSeq(s, LAMBDA c : c \notin Whitespace)

RECURSIVE concatTexts(_, _)
\* the texts of the requests S of a task list, in the order of submission
concatTexts(tt, S) ==
  IF S = {} THEN <<>>
  ELSE tt[Min(S)].text \o concatTexts(tt, S \ {Min(S)})

\* the step in which the stream of turn k is exhausted and the flush is made
exhausts(k) ==
  /\ turns[k].pc = "stream"
  /\ turns'[k].pc # "stream"
  /\ current(k)

\* C11: when the stream of an uninterrupted turn is exhausted, the texts
\* submitted to synthesis, the flush included, concatenated in order, are
\* the accumulated text with its markers removed, white space aside.
C11_SegmentsPartitionText ==
  [][\A k \in TurnIds :
       exhausts(k) =>
         withoutWhitespace(concatTexts(tasks', turns'[k].ttsPromises))
           = withoutWhitespace(stripAll(turns[k].fullText))]_vars

\* the step in which turn k processes one more increment
feeds(k) == turns[k].pc = "stream" /\ turns'[k].n = turns[k].n + 1

endsWithDelimiter(s) == s # <<>> /\ s[Len(s)] \in delimiters

\* C12 as stated: when the increments of a turn end with a delimiter, the
\* last sentence is submitted by the final flush.
C12_LastSentenceByFlush ==
  [][\A k \in TurnIds :
       (exhausts(k) /\ endsWithDelimiter(turns[k].fullText)) =>
         Len(tasks') = Len(tasks) + 1]_vars

\* C12, amended: the feed of an increment that ends with a delimiter submits
\* the sentence it completes and leaves the buffer empty, and the flush of
\* an empty buffer submits nothing.
C12_LastSentenceByFeed ==
  [][\A k \in TurnIds :
       /\ (feeds(k) /\ endsWithDelimiter(turns'[k].fullText)) =>
            /\ turns'[k].buffer = <<>>
            /\ Len(tasks') = Len(tasks) + 1
            /\ turns'[k].ttsPromises = turns[k].ttsPromises \cup {Len(tasks')}
       /\ (exhausts(k) /\ turns[k].buffer = <<>>) =>
            /\ Len(tasks') = Len(tasks)
            /\ turns'[k].ttsPromises = turns[k].ttsPromises]_vars

\* an earlier sentence and, two increments later, the last sentence were
\* both submitted while feeding; the buffer is empty before the flush
C12_Witness ==
  \E k \in TurnIds :
    /\ turns[k].pc = "stream"
    /\ turns[k].n = MaxTextIncrements
    /\ endsWithDelimiter(turns[k].fullText)
    /\ turns[k].buffer = <<>>
    /\ Cardinality(turns[k].ttsPromises) = 2
    /\ tasks[Max(turns[k].ttsPromises)].text = <<"a", "a", "U3002">>

\* the synthesis requests of turn k
tasksOf(k) == {t \in TaskIds : tasks[t].turn = k}

\* C13: of the synthesis requests of one turn, the flush included, the
\* first submitted carries shouldInterrupt = true and every later one
\* false, and the step that submits a later one stops nothing: the epoch of
\* the scheduler and the live set stay as they are.
C13_FirstRequestInterrupts ==
  /\ [](\A k \in TurnIds : \A t \in tasksOf(k) :
          tasks[t].shouldInterrupt <=> t = Min(tasksOf(k)))
  /\ [][\A k \in TurnIds :
          (tasksOf(k) # {} /\ turns'[k].ttsPromises # turns[k].ttsPromises) =>
             /\ latestTTSId' = latestTTSId
             /\ activeSources' = activeSources
             /\ nextStartTime' = nextStartTime]_vars

\* a unit of the first request of a turn is live after the flush of the
\* turn has submitted a later request
C13_Witness ==
  \E k \in TurnIds :
    /\ turns[k].pc # "stream"
    /\ Cardinality(tasksOf(k)) >= 2
    /\ tasks[Max(tasksOf(k))].text = <<"a">>
    /\ \E s \in activeSources : sinkLog[s].task = Min(tasksOf(k))

\* C14: when the text stream of a current turn has failed, at the request
\* or later, the message of the turn shows the fallback text at its end and
\* loading is false, and the end of the turn leaves both as they are.
C14_StreamFailureFallback ==
  /\ [](\A k \in TurnIds :
          (current(k) /\ turns[k].pc = "stream" /\ streamFailed(turns[k].fullText))
            => /\ endsWith(textOf(k), Fallback)
               /\ ~isLoading)
  /\ [][\A k \in TurnIds :
          (exhausts(k) /\ streamFailed(turns[k].fullText)) =>
             /\ messages' = messages
             /\ isLoading' = isLoading]_vars

\* the stream of a send has failed before its first increment
C14_Witness ==
  \E k \in TurnIds :
    /\ current(k)
    /\ turns[k].caller = "send"
    /\ turns[k].pc = "stream"
    /\ turns[k].fullText = Fallback
    /\ textOf(k) = Fallback
    /\ ~isLoading

(***************************************************************************)
(* Failures inside a scheduling task.                                      *)
(***************************************************************************)
\* C15: whatever fetch or decode fails, every request waiting on the lane
\* gets its turn, and every turn whose stream has ended gets past
\* Promise.all, which takes every promise of the turn to have resolved.
C15_FailureDoesNotBlock ==
  /\ \A t \in 1..MaxTasks :
       (t <= Len(tasks) /\ tasks[t].pc = "queued")
         ~> (t <= Len(tasks) /\ tasks[t].pc # "queued" /\ tasks[t].pc # "rejected")
  /\ \A k \in 1..MaxTurns :
       (k <= Len(turns) /\ turns[k].pc = "waitAll")
         ~> (/\ k <= Len(turns)
             /\ turns[k].pc \in {"timer", "done"}
             /\ \A t \in turns[k].ttsPromises : tasks[t].pc = "done")

\* the fetch of a request has failed, the task is about to reach its catch
\* block, and the next request of the turn waits behind it while the stream
\* of the turn still delivers
C15_Witness ==
  \E t \in TaskIds : \E u \in TaskIds :
    /\ tasks[t].fetch = "failed"
    /\ tasks[t].pc = "fetch"
    /\ tasks[u].prev = t
    /\ tasks[u].pc = "queued"
    /\ tasks[u].turn = tasks[t].turn
    /\ turns[tasks[t].turn].pc = "stream"

(***************************************************************************)
(* stopAudio and the epochs.                                               *)
(***************************************************************************)
\* C16: in every reachable state stopAudio leaves the lane empty, the live
\* set empty and the cursor at zero, and a second call right after the
\* first leaves the three as the first left them.
C16_StopIdempotent ==
  LET once == stopAudio(Audio)
      twice == stopAudio(once)
  IN /\ once.audioQueue = 0
     /\ once.activeSources = {}
     /\ once.nextStartTime = 0
     /\ twice.audioQueue = once.audioQueue
     /\ twice.activeSources = once.activeSources
     /\ twice.nextStartTime = once.nextStartTime
     /\ twice.tasks = tasks

\* a task waits for its decode while a unit is live, the cursor is ahead
\* and the lane holds a task
C16_Witness ==
  /\ \E t \in TaskIds : tasks[t].pc = "decode"
  /\ activeSources # {}
  /\ nextStartTime > 0
  /\ audioQueue # 0

\* C17: both epoch counters start at 0; every change of either is an
\* increase; the epoch of the turns changes only in a step that starts a
\* turn or restarts the game; two turns never hold the same captured epoch.
C17_EpochMonotone ==
  /\ streamSequenceId = 0
  /\ latestTTSId = 0
  /\ [][/\ streamSequenceId' >= streamSequenceId
        /\ latestTTSId' >= latestTTSId
        /\ streamSequenceId' # streamSequenceId =>
             \/ Len(turns') = Len(turns) + 1
             \/ gameState = "PLAYING" /\ gameState' = "IDLE"]_vars
  /\ [](\A j \in TurnIds : \A k \in TurnIds :
          /\ turns[k].mySeqId <= streamSequenceId
          /\ j # k => turns[j].mySeqId # turns[k].mySeqId)

\* a game was started, restarted and started again
C17_Witness ==
  /\ Len(turns) = 2
  /\ turns[2].caller = "start"
  /\ turns[2].mySeqId > turns[1].mySeqId + 2
  /\ latestTTSId >= 3

(***************************************************************************)
(* The drain of a turn.                                                    *)
(***************************************************************************)
\* the units that the requests of turn k have scheduled and no stopAudio
\* has cut off
unitsOf(k) ==
  {i \in UnitIds : unitTask(i).turn = k /\ unitTask(i).myId = latestTTSId}

\* C18: when the drain timer of a current turn has fired, every request of
\* the turn has finished scheduling and the device clock has passed the
\* end of every unit of the turn by the fixed slack.
C18_DrainAfterPlayback ==
  \A k \in TurnIds :
    (current(k) /\ turns[k].pc = "done") =>
      /\ \A t \in tasksOf(k) : tasks[t].pc = "done"
      /\ \A i \in unitsOf(k) : unitEnd(i) + FixedSlack <= currentTime
      /\ ~isSpeaking

\* the drain timer of a current turn has fired after a unit of the turn
\* was played
C18_Witness ==
  \E k \in TurnIds :
    /\ current(k)
    /\ turns[k].pc = "done"
    /\ unitsOf(k) # {}
    /\ ~isSpeaking

\* C19 as stated: a turn has delivered its result only when every synthesis
\* request of the turn has finished its scheduling.
C19_ResultAfterScheduling ==
  \A k \in TurnIds :
    turns[k].result # "none" =>
      \A t \in turns[k].ttsPromises : tasks[t].pc = "done"

\* C19, amended: a turn delivers its result in the step in which its stream
\* ends and the flush is made, whatever its requests have done; only the
\* drain, the computation of the speaking timer, comes after every request
\* of the turn has finished its scheduling.
C19_DrainAfterScheduling ==
  \A k \in TurnIds :
    /\ turns[k].result # "none" <=> turns[k].pc # "stream"
    /\ turns[k].pc \in {"timer", "done"} =>
         \A t \in turns[k].ttsPromises : tasks[t].pc = "done"

\* a turn has returned its result while one of its requests still waits on
\* the lane
C19_Witness ==
  \E k \in TurnIds :
    /\ turns[k].result # "none"
    /\ turns[k].pc = "waitAll"
    /\ \E t \in turns[k].ttsPromises : tasks[t].pc = "queued"

\* the increment that the step appends to the accumulated text of turn k
fedChunk(k) ==
  SubSeq(turns'[k].fullText, Len(turns[k].fullText) + 1, Len(turns'[k].fullText))

\* C20: the feed of an increment into a buffer that then holds a delimiter
\* submits exactly one segment, the buffer up to and including its last
\* delimiter (cleaned), and keeps the text after it; into a buffer that
\* holds none it submits nothing and keeps all the text.
C20_FeedLastDelimiter ==
  [][\A k \in TurnIds :
       feeds(k) =>
         LET buf == turns[k].buffer \o fedChunk(k)
             D == {i \in 1..Len(buf) : buf[i] \in delimiters}
         IN IF D # {}
              THEN /\ Len(tasks') = Len(tasks) + 1
                   /\ tasks'[Len(tasks')].text =
                        ttsTextOf(SubSeq(buf, 1, Max(D)))
                   /\ tasks'[Len(tasks')].turn = k
                   /\ turns'[k].buffer = SubSeq(buf, Max(D) + 1, Len(buf))
              ELSE /\ Len(tasks') = Len(tasks)
                   /\ turns'[k].buffer = buf]_vars

\* one increment with two sentences was submitted as one segment, and a
\* later increment without a delimiter stays in the buffer
C20_Witness ==
  \E k \in TurnIds :
    /\ turns[k].pc = "stream"
    /\ turns[k].buffer = <<" ", "a">>
    /\ \E t \in turns[k].ttsPromises : tasks[t].text = <<"a", "!", "b", "?">>

\* C21: when the stream of a turn that is still current is exhausted, the
\* cleaned remainder of the buffer is submitted as one more synthesis
\* request exactly when it is not empty; that request comes after every
\* request the feeds of the turn submitted, and once the stream is
\* exhausted the turn submits nothing more.
C21_FlushOnce ==
  [][\A k \in TurnIds :
       /\ exhausts(k) =>
            LET remainder == ttsTextOf(turns[k].buffer)
            IN IF remainder # <<>>
                 THEN /\ Len(tasks') = Len(tasks) + 1
                      /\ tasks'[Len(tasks')].text = remainder
                      /\ tasks'[Len(tasks')].turn = k
                      /\ turns'[k].ttsPromises =
                           turns[k].ttsPromises \cup {Len(tasks')}
                      /\ \A t \in turns[k].ttsPromises : t < Len(tasks')
                 ELSE /\ Len(tasks') = Len(tasks)
                      /\ turns'[k].ttsPromises = turns[k].ttsPromises
       /\ (k <= Len(turns) /\ turns[k].pc # "stream") =>
            /\ turns'[k].ttsPromises = turns[k].ttsPromises
            /\ tasksOf(k)' = tasksOf(k)]_vars

\* a turn whose feed submitted a sentence and whose flush then submitted
\* the undelimited remainder "a"
C21_Witness ==
  \E k \in TurnIds :
    /\ current(k)
    /\ turns[k].pc = "waitAll"
    /\ Cardinality(turns[k].ttsPromises) >= 2
    /\ tasks[Max(turns[k].ttsPromises)].text = <<"a">>

\* C22: no text handed to synthesis holds the correctness marker or the
\* opening of an image marker.
C22_SynthesisTextClean ==
  \A t \in TaskIds :
    /\ ~includes(tasks[t].text, CORRECT)
    /\ ~includes(tasks[t].text, IMAGE_OPEN)

\* unit i of sinkLog was scheduled by task t
scheduledBy(t) == {i \in UnitIds : sinkLog[i].task = t}

\* C23: the fetch of a synthesis request is in flight from the step that
\* submits the request, and while it is in flight the network's answer to it
\* can arrive whatever the position of the request in the scheduling lane
\* and whatever the state of the fetch and of the scheduling of the
\* requests before it.
C23_FetchAtSubmission ==
  /\ [][\A t \in 1..MaxTasks :
          (Len(tasks) < t /\ t <= Len(tasks')) => tasks'[t].fetch = "inflight"]_vars
  /\ [](\A t \in TaskIds :
          (tasks[t].fetch = "inflight" /\ tasks[t].pc # "done" /\ eventLoopIdle) =>
            ENABLED FetchComplete(t, "ok"))

\* two consecutive requests of one turn with both fetches in flight: the
\* lane holds the first, which awaits its response and has scheduled
\* nothing, and the second is still queued behind it
C23_Witness ==
  \E t \in TaskIds :
    /\ t + 1 \in TaskIds
    /\ tasks[t].turn = tasks[t + 1].turn
    /\ tasks[t].fetch = "inflight" /\ tasks[t + 1].fetch = "inflight"
    /\ tasks[t].pc = "fetch" /\ tasks[t + 1].pc = "queued"
    /\ scheduledBy(t) = {}

\* C24: every step that schedules a unit gives it the start time
\* max(cursor, clock), which is not before the clock, and leaves the cursor
\* at that start time plus the duration of the unit.
C24_NeverInThePast ==
  [][Len(sinkLog') > Len(sinkLog) =>
       LET unit == sinkLog'[Len(sinkLog')]
       IN /\ Len(sinkLog') = Len(sinkLog) + 1
          /\ unit.startTime >= currentTime
          /\ unit.startTime = Max({nextStartTime, currentTime})
          /\ nextStartTime' = unit.startTime + unit.duration
          /\ currentTime' = currentTime]_vars

\* a silence gap inside one request: its second unit starts at the clock,
\* after the end of its first unit
C24_Witness ==
  \E i \in UnitIds :
    /\ i > 1
    /\ sinkLog[i].task = sinkLog[i - 1].task
    /\ sinkLog[i].startTime > unitEnd(i - 1)
    /\ sinkLog[i].duration > 0

\* the requests submitted before t since the last stopAudio
aheadOf(t) == {u \in TaskIds : u < t /\ tasks[u].myId = tasks[t].myId}

\* C25: a request of the current epoch whose fetch has completed, and which
\* has no request of its own epoch ahead of it with a fetch still in flight,
\* eventually gets the lane and consumes its response, whatever the
\* requests submitted before the last stopAudio are waiting for.
C25_NotBlockedByOldRequests ==
  \A t \in 1..MaxTasks :
    (/\ t <= Len(tasks)
     /\ tasks[t].myId = latestTTSId
     /\ tasks[t].fetch = "ok"
     /\ \A u \in aheadOf(t) : tasks[u].fetch # "inflight")
      ~> (t <= Len(tasks) /\ tasks[t].pc \in {"chunk", "decode", "done"})

\* a request of the turn before still awaits its response, which has not
\* come, while a request submitted after the stopAudio has scheduled a unit
C25_Witness ==
  \E u, t \in TaskIds :
    /\ u < t
    /\ tasks[u].myId < tasks[t].myId
    /\ tasks[u].pc = "fetch" /\ tasks[u].fetch = "inflight"
    /\ tasks[t].myId = latestTTSId
    /\ scheduledBy(t) # {}

\* C26: a scheduling task whose epoch was bumped while it awaited the resume
\* of the audio device does not go on to the statement that writes the
\* cursor: when a stale task leaves that await, the condition of the cursor
\* assignment is false for it.
C26_StaleTaskWritesNothing ==
  [][\A t \in 1..MaxTasks :
       (/\ t <= Len(tasks)
        /\ tasks[t].pc = "resume"
        /\ tasks[t].myId # latestTTSId
        /\ tasks'[t].pc = "fetch") =>
         ~(tasks[t].shouldInterrupt \/ nextStartTime < currentTime)]_vars

\* C27 as stated: a stopAudio call (here the one of the microphone button,
\* which does nothing else) leaves both epoch counters unchanged.
C27_StopLeavesEpoch ==
  [][micStops' # micStops =>
       /\ latestTTSId' = latestTTSId
       /\ streamSequenceId' = streamSequenceId]_vars

\* C27, amended: a stopAudio call increments the epoch of the scheduler,
\* latestTTSId, by one, empties the lane and the live set and puts the cursor
\* of an existing context back to 0; it changes nothing else, the epoch of
\* the turns, streamSequenceId, included.
C27_StopBumpsSchedulerEpoch ==
  [][micStops' # micStops =>
       /\ latestTTSId' = latestTTSId + 1
       /\ audioQueue' = 0
       /\ activeSources' = {}
       /\ nextStartTime' = IF audioContext # "null" THEN 0 ELSE nextStartTime
       /\ UNCHANGED <<appVars, tasks, audioContext, currentTime, sinkLog>>]_vars

\* the microphone button was pressed during a turn that is still current and
\* has a request, now of a past scheduler epoch, that was playing a unit
C27_Witness ==
  /\ micStops >= 1
  /\ \E t \in TaskIds :
       /\ current(tasks[t].turn)
       /\ tasks[t].myId < latestTTSId
       /\ scheduledBy(t) # {}

\* C28: a request calls onStart at most once; it calls it in the step that
\* schedules its first unit, while its epoch is the current one; a request
\* that has scheduled no unit has not called it.
C28_OnStartOnce ==
  /\ [](\A t \in TaskIds :
          /\ tasks[t].onStartCalls <= 1
          /\ tasks[t].onStartCalls = 1 <=> scheduledBy(t) # {})
  /\ [][\A t \in 1..MaxTasks :
          (t <= Len(tasks) /\ tasks'[t].onStartCalls # tasks[t].onStartCalls) =>
            /\ tasks[t].myId = latestTTSId
            /\ scheduledBy(t) = {}
            /\ Len(sinkLog') = Len(sinkLog) + 1
            /\ sinkLog'[Len(sinkLog')].task = t]_vars

\* a request that has scheduled two units and called onStart once, and a
\* request that ended stale, without a unit and without a call
C28_Witness ==
  /\ \E t \in TaskIds :
       Cardinality(scheduledBy(t)) = 2 /\ tasks[t].onStartCalls = 1
  /\ \E t \in TaskIds :
       /\ tasks[t].myId # latestTTSId
       /\ tasks[t].pc = "done" /\ scheduledBy(t) = {} /\ tasks[t].onStartCalls = 0

\* C29: when the decoding of a chunk of a request of the current epoch
\* fails, the request goes on to the next chunk of its response.
C29_DecodeFailureSkipsUnit ==
  [][\A t \in 1..MaxTasks :
       (/\ t <= Len(tasks)
        /\ tasks[t].pc = "decode"
        /\ tasks[t].myId = latestTTSId
        /\ tasks'[t].pc # "decode"
        /\ Len(sinkLog') = Len(sinkLog)) =>
         tasks'[t].pc = "chunk"]_vars

\* C30: while a turn whose epoch is current has processed no increment,
\* loading is true; a step in which a turn processes an increment is taken
\* under the current epoch and leaves loading false; and loading goes from
\* false to true only in a step that starts a turn.
C30_LoadingUntilFirstIncrement ==
  /\ [](\A k \in TurnIds :
          (/\ turns[k].mySeqId = streamSequenceId
           /\ turns[k].pc = "stream"
           /\ turns[k].n = 0) => isLoading)
  /\ [][\A k \in 1..MaxTurns :
          (k <= Len(turns) /\ feeds(k)) =>
            /\ turns[k].mySeqId = streamSequenceId
            /\ ~isLoading']_vars
  /\ [][(~isLoading /\ isLoading') => Len(turns') = Len(turns) + 1]_vars

\* a turn has processed an increment and cleared loading, while the turn
\* before it, superseded in the middle of its stream, has increments left
C30_Witness ==
  \E j, k \in TurnIds :
    /\ j < k
    /\ turns[j].mySeqId # streamSequenceId /\ turns[j].pc = "stream"
    /\ turns[k].mySeqId = streamSequenceId /\ turns[k].n >= 1
    /\ ~isLoading

\* C31: once the stream of a turn is exhausted, and as long as no later turn
\* supersedes it, the speaking flag eventually is false; and once the drain
\* timer of a current turn has fired, the flag stays false in every step
\* that leaves the turn current.
C31_SpeakingEventuallyFalse ==
  /\ \A k \in 1..MaxTurns :
       (k <= Len(turns) /\ current(k) /\ turns[k].pc # "stream")
         ~> (k <= Len(turns) /\ (~isSpeaking \/ ~current(k)))
  /\ \A k \in 1..MaxTurns :
       (k <= Len(turns) /\ current(k) /\ turns[k].pc = "waitAll")
         ~> (k <= Len(turns) /\ (turns[k].pc = "done" \/ ~current(k)))
  /\ [][\A k \in 1..MaxTurns :
          (k <= Len(turns) /\ current(k) /\ turns[k].pc = "done" /\ current(k)') =>
            ~isSpeaking /\ ~isSpeaking']_vars

\* the drain timer of a current turn has fired and put the flag to false
\* after two requests of the turn: one played a unit, one failed
C31_Witness ==
  \E k \in TurnIds :
    /\ current(k) /\ turns[k].pc = "done" /\ ~isSpeaking
    /\ \E t, u \in tasksOf(k) :
         /\ tasks[t].onStartCalls = 1
         /\ scheduledBy(u) = {}

\* C32: every unit of the live set eventually leaves it, and the live set
\* eventually is empty; a unit leaves the live set only when it has played
\* to its end or when stopAudio is called; and a step that neither
\* schedules a unit, nor calls stopAudio, nor is the completion of a unit of
\* the live set (the callback of a stopped unit is such a step) leaves the
\* live set as it is.
C32_LiveSetDrains ==
  /\ \A s \in 1..(MaxTasks * MaxChunks) : (s \in activeSources) ~> (s \notin activeSources)
  /\ (activeSources # {}) ~> (activeSources = {})
  /\ [][\A s \in activeSources :
          s \notin activeSources' =>
            \/ latestTTSId' # latestTTSId
            \/ unitEnd(s) <= currentTime /\ activeSources' = activeSources \ {s}]_vars
  /\ [][activeSources' # activeSources =>
          \/ latestTTSId' # latestTTSId
          \/ Len(sinkLog') > Len(sinkLog)
          \/ \E s \in activeSources : unitEnd(s) <= currentTime]_vars

\* two units of one epoch, the first played to its end and taken out of the
\* live set by its callback while the second is still playing, and a unit of
\* an earlier epoch that stopAudio stopped
C32_Witness ==
  \E r, s, u \in UnitIds :
    /\ unitTask(r).myId < unitTask(s).myId
    /\ unitTask(s).myId = latestTTSId /\ unitTask(u).myId = latestTTSId
    /\ s < u
    /\ unitEnd(s) <= currentTime
    /\ s \notin activeSources
    /\ u \in activeSources

\* C33: every unit of the live set was scheduled by a task whose myId is
\* the current latestTTSId.
C33_LiveSetOfCurrentEpoch ==
  \A s \in activeSources : unitTask(s).myId = latestTTSId

\* the live set holds a unit of the current epoch while the log of the sink
\* holds a unit of an earlier epoch, which a stopAudio took out
C33_Witness ==
  \E r, s \in UnitIds :
    /\ unitTask(r).myId < latestTTSId
    /\ r \notin activeSources
    /\ s \in activeSources

\* C34: every unit on the sink was scheduled by a request of the scheduler
\* epoch in which its turn submitted its first request: once a stopAudio
\* has followed, nothing of the turn is scheduled any more.
C34_StopEndsTurn ==
  \A i \in UnitIds :
    unitTask(i).myId = tasks[Min(tasksOf(unitTask(i).turn))].myId

\* C35: a turn starts the celebration only while its epoch is the current
\* one.
C35_CelebrationOnlyCurrent ==
  [][\A k \in 1..MaxTurns :
       (k <= Len(turns) /\ turns'[k].celebrated > turns[k].celebrated) =>
         turns[k].mySeqId = streamSequenceId]_vars

\* C36: when a turn that is still current has finished, its stream ended
\* and its drain timer fired, loading is false.
C36_LoadingClearedAtEnd ==
  \A k \in TurnIds :
    (current(k) /\ turns[k].pc = "done") => ~isLoading

\* C37: once the drain timer of a turn is armed, every request of the turn
\* has finished; a request calls onStart only while its turn is streaming or
\* waiting for its requests; and in a step from a state where the drain
\* timer of the current turn has fired, the speaking flag is not set.
C37_NoStartAfterDrain ==
  /\ [](\A k \in TurnIds :
          turns[k].pc \in {"timer", "done"} =>
            \A t \in tasksOf(k) : tasks[t].pc = "done")
  /\ [][\A t \in 1..MaxTasks :
          (t <= Len(tasks) /\ tasks'[t].onStartCalls # tasks[t].onStartCalls) =>
            turns[tasks[t].turn].pc \in {"stream", "waitAll"}]_vars
  /\ [][\A k \in 1..MaxTurns :
          (k <= Len(turns) /\ current(k) /\ turns[k].pc = "done") =>
            (isSpeaking' => Len(turns') > Len(turns))]_vars

\* the drain timer of a current turn is armed after a request of the turn
\* called onStart, and speaking is still true
C37_Witness ==
  \E k \in TurnIds :
    /\ current(k)
    /\ turns[k].pc = "timer"
    /\ isSpeaking
    /\ \E t \in tasksOf(k) : tasks[t].onStartCalls = 1

\* the part of the accumulated text of turn k that is no longer in its
\* buffer: what the feeds have cut off as segments so far
emitted(k) ==
  Prefix(turns[k].fullText, Len(turns[k].fullText) - Len(turns[k].buffer))

hasDelimiter(s) == \E i \in 1..Len(s) : s[i] \in delimiters

\* C38: while a turn is streaming, its buffer holds no delimiter and the
\* text cut off so far followed by the buffer is the accumulated text; each
\* feed cuts the buffer with its increment into one segment, empty or ending
\* with a delimiter, and the new buffer, and adds the increment to the
\* accumulated text.
C38_BufferInvariant ==
  /\ [](\A k \in TurnIds :
          turns[k].pc = "stream" =>
            /\ ~hasDelimiter(turns[k].buffer)
            /\ Len(turns[k].buffer) <= Len(turns[k].fullText)
            /\ emitted(k) \o turns[k].buffer = turns[k].fullText
            /\ emitted(k) = <<>> \/ endsWithDelimiter(emitted(k)))
  /\ [][\A k \in 1..MaxTurns :
          (k <= Len(turns) /\ feeds(k)) =>
            LET fed == turns[k].buffer \o fedChunk(k)
                segment == Prefix(fed, Len(fed) - Len(turns'[k].buffer))
            IN /\ Len(turns'[k].fullText) > Len(turns[k].fullText)
               /\ Prefix(turns'[k].fullText, Len(turns[k].fullText)) = turns[k].fullText
               /\ Len(turns'[k].buffer) <= Len(fed)
               /\ segment \o turns'[k].buffer = fed
               /\ segment = <<>> \/ endsWithDelimiter(segment)
               /\ emitted(k)' = emitted(k) \o segment]_vars

\* a turn whose feeds have cut off two sentences at once and then took an
\* increment that ends without a delimiter
C38_Witness ==
  \E k \in TurnIds :
    /\ turns[k].pc = "stream"
    /\ turns[k].n >= 2
    /\ turns[k].buffer # <<>>
    /\ Cardinality({i \in 1..Len(emitted(k)) : emitted(k)[i] \in delimiters}) >= 2

=============================================================================
